---- MODULE Spec2Model ----
(***************************************************************************)
(* SubtitlePro: the SubtitleEmbedder component of                          *)
(* src/core/subtitle_processor.py, driven by the embed page of             *)
(* src/ui/embed_page.py, as a state machine.                               *)
(*                                                                         *)
(* The state is the embedder's fields, the QProcess it owns, the files on  *)
(* disk it reads and writes, and the notifications (Qt signals) it has     *)
(* emitted for the current embed() call.                                   *)
(*                                                                         *)
(* Modelling notes.                                                        *)
(*  - A path is a record [dir, stem, ext]; stem is a sequence of           *)
(*    characters so that lower(), splitext() and the "_new" suffix are     *)
(*    computed, not assumed.  dir and ext are drawn from lower-case sets.  *)
(*  - Times of the compositing tool's output markers are integers in       *)
(*    centiseconds ("HH:MM:SS.ff" has two decimals), so that               *)
(*    int(current / duration * 100) is (current * 100) \div duration.      *)
(*  - _duration_sec is created lazily by _on_output; the code treats the   *)
(*    missing attribute and the value 0 alike, and so 0 stands for both.   *)
(*  - os.remove in _cleanup_temp_files is taken to succeed.                *)
(***************************************************************************)
EXTENDS Integers, Sequences, FiniteSets

\* ------------------------------------------------------------------ bounds
\* embed() calls in one behaviour
MaxJobs == 2
\* output chunks (readyReadStandardOutput) handled per process
MaxChunks == 2

\* ------------------------------------------------------------------- paths
MkPath(stem) == [dir |-> "/d", stem |-> stem, ext |-> ".mp4"]

NoPath == [dir |-> "", stem |-> << >>, ext |-> ""]

\* the videos the caller may pass (they exist on disk, non-empty)
VideoPaths == {MkPath(<<"a">>)}

\* the subtitle (cue) files the caller may pass
SrtPaths == {[dir |-> "/d", stem |-> <<"s">>, ext |-> ".srt"],
             [dir |-> "/t", stem |-> <<"t">>, ext |-> ".srt"]}

\* the output paths the caller may pass: the input itself, the input in
\* another letter case, and an unrelated path
OutputPaths == {MkPath(<<"a">>), MkPath(<<"A">>), MkPath(<<"b">>)}

\* str.lower() on one character
LowerChar(c) == IF c = "A" THEN "a" ELSE IF c = "B" THEN "b" ELSE c

\* str.lower() on a path
Lower(p) == [p EXCEPT !.stem = [i \in DOMAIN p.stem |-> LowerChar(p.stem[i])]]

\* a plausible slip: the two paths compared without lower()
OutputAbs_CaseSensitive(video, output) ==
    IF video = output
    THEN [output EXCEPT !.stem = output.stem \o <<"_new">>]
    ELSE output

\* embed(): the path the compositing process is told to write
OutputAbs(video, output) ==
    IF Lower(video) = Lower(output)
    THEN [output EXCEPT !.stem = output.stem \o <<"_new">>]
    ELSE output

\* a plausible slip: '_new' path computed for the process but not recorded
RecordedOutput_Unrecorded(video, output) == output

\* embed(): the value of self._output_video when embed() returns
RecordedOutput(video, output) == OutputAbs(video, output)

\* embed(): the temporary styled-track path, beside the video, named after
\* the cue file's base name (no process identifier in it)
TempAssPath(video, srt) ==
    [dir |-> video.dir, stem |-> <<".temp_embed_">> \o srt.stem, ext |-> ".ass"]

\* ------------------------------------------------------------ environment
\* what convert_srt_to_ass can do: write the track; raise while loading the
\* cue file (nothing written); raise while writing the track (the file has
\* been created by open(..., "w"))
ConvertOutcomes == {"ok", "load_error", "save_error"}

\* QProcess.start: the executable runs, or it is missing / not runnable
StartOutcomes == {"started", "failed_to_start"}

\* exit codes of the compositing process
ExitCodes == {0, 1, -22}

\* what the process leaves at its output path
OutputEffects == {"keep", "empty", "full"}

\* "Duration: HH:MM:SS.ff" in a chunk, in centiseconds; -1: no marker
DurationMarkers == {-1, 0, 20}

\* "time=HH:MM:SS.ff" in a chunk, in centiseconds; -1: no marker
TimeMarkers == {-1, 5, 30}

\* ------------------------------------------------------------------- state
VARIABLES
    input_video,     \* self._input_video
    output_video,    \* self._output_video
    temp_ass_path,   \* self._temp_ass_path
    retry_mode,      \* self._retry_mode
    duration_sec,    \* self._duration_sec, centiseconds (0: unset or zero)
    procState,       \* self.proc.state(): "NotRunning" | "Running"
    procOut,         \* the output path in the running process's arguments
    files,           \* the paths that exist on disk
    nonempty,        \* the paths whose file has size > 0
    signals,         \* notifications emitted since the last embed() call
                     \* made while no process was running
    jobs,            \* number of embed() calls so far
    chunks,          \* output chunks handled for the current process
    call,            \* the arguments of the last embed() call, what the
                     \* environment did in it (conv, start), and the
                     \* number of launches before it
    launches,        \* number of times proc.start launched a process
    exited,          \* exit of the current job's process: [done, code]
    style,           \* one process_bilingual_event call: its arguments
                     \* and the event text before and after
    track,           \* one convert_srt_to_ass call: its arguments, what
                     \* the environment did, and the track written
    preview,         \* one create_preview_frame call: its arguments, what
                     \* the environment did, and what it returned and left
    classify,        \* one classification of a string: the string and the
                     \* answers of CN_RE.search and of is_chinese
    temps,           \* two operations run by two processes: their
                     \* arguments and the temporary track paths they use
    overlap,         \* whether embed() was called while the process of an
                     \* earlier call was running, and that earlier call
    swap,            \* swap_chinese_english applied once and twice to a
                     \* cue list of the subtitle editor
    mw               \* the main window's translation task: the busy flag,
                     \* the audio worker, the upload, the polling of the
                     \* job and what is in flight

evars == <<input_video, output_video, temp_ass_path, retry_mode, duration_sec,
           procState, procOut, files, nonempty, signals, jobs, chunks, call,
           launches, exited>>

vars == <<evars, style, track, preview, classify, temps, overlap, swap, mw>>

\* ----------------------------------------------------------- notifications
Progress(p) == [kind |-> "progress", pct |-> p, path |-> NoPath,
                reason |-> "", code |-> 0]

Finished(p) == [kind |-> "finished", pct |-> -1, path |-> p,
                reason |-> "", code |-> 0]

\* reason: "convert" (line 317), "empty" (line 391), "exit" (line 400)
Error(r, c) == [kind |-> "error", pct |-> -1, path |-> NoPath,
                reason |-> r, code |-> c]

IsTerminal(s) == s.kind \in {"finished", "error"}

NoCall == [video |-> NoPath, srt |-> NoPath, output |-> NoPath,
           conv |-> "", start |-> "", before |-> 0]

InitEmbedder ==
    /\ input_video = NoPath
    /\ output_video = NoPath
    /\ temp_ass_path = NoPath
    /\ retry_mode = FALSE
    /\ duration_sec = 0
    /\ procState = "NotRunning"
    /\ procOut = NoPath
    /\ files = VideoPaths
    /\ nonempty = VideoPaths
    /\ signals = << >>
    /\ jobs = 0
    /\ chunks = 0
    /\ call = NoCall
    /\ launches = 0
    /\ exited = [done |-> FALSE, code |-> 0]

\* ------------------------------------------------------------------ embed
ConvertRaises(conv) == conv # "ok"

\* a plausible slip: the except branch reports the error but does not return
LaunchesProcess_NoReturn(conv) == TRUE

\* embed(): the process is launched only when the conversion did not raise
LaunchesProcess(conv) == ~ConvertRaises(conv)

\* convert_srt_to_ass: the files on disk after the call
FilesAfterConvert(fs, temp, conv) ==
    IF conv \in {"ok", "save_error"} THEN fs \cup {temp} ELSE fs

\* the caller (the embed page) disables its button while a job runs
CallerMayEmbed == procState = "NotRunning"

Embed(video, srt, output, conv, start) ==
    /\ CallerMayEmbed
    /\ jobs < MaxJobs
    /\ jobs' = jobs + 1
    /\ call' = [video |-> video, srt |-> srt, output |-> output,
                conv |-> conv, start |-> start, before |-> launches]
    /\ input_video' = video
    /\ retry_mode' = FALSE
    /\ temp_ass_path' = TempAssPath(video, srt)
    /\ files' = FilesAfterConvert(files, TempAssPath(video, srt), conv)
    /\ nonempty' = IF conv = "ok"
                   THEN nonempty \cup {TempAssPath(video, srt)}
                   ELSE IF conv = "save_error"
                        THEN nonempty \ {TempAssPath(video, srt)}
                        ELSE nonempty
    /\ chunks' = 0
    /\ exited' = [done |-> FALSE, code |-> 0]
    /\ IF ConvertRaises(conv)
       THEN /\ signals' = <<Error("convert", 0)>>
            /\ output_video' = output
       ELSE /\ signals' = << >>
            /\ output_video' = RecordedOutput(video, output)
    /\ IF LaunchesProcess(conv) /\ start = "started"
       THEN /\ procState' = "Running"
            /\ procOut' = OutputAbs(video, output)
            /\ launches' = launches + 1
       ELSE UNCHANGED <<procState, procOut, launches>>
    /\ UNCHANGED duration_sec

\* -------------------------------------------------------------- _on_output
\* a plausible slip: the clamp is left out
ClampProgress_NoClamp(p) == p

\* min(progress, 99)
ClampProgress(p) == IF p < 99 THEN p ELSE 99

\* the duration after the chunk: captured while it is unset or zero
DurationAfter(dur, marker) ==
    IF dur = 0 /\ marker # -1 THEN marker ELSE dur

OnOutput(dmark, tmark) ==
    /\ procState = "Running"
    /\ chunks < MaxChunks
    /\ chunks' = chunks + 1
    /\ duration_sec' = DurationAfter(duration_sec, dmark)
    /\ IF tmark # -1 /\ duration_sec' > 0
       THEN signals' = Append(signals,
                Progress(ClampProgress((tmark * 100) \div duration_sec')))
       ELSE signals' = signals
    /\ UNCHANGED <<input_video, output_video, temp_ass_path, retry_mode,
                   procState, procOut, files, nonempty, jobs, call, launches,
                   exited>>

\* ------------------------------------------------------------ _on_finished
\* the disk after the process has exited
FilesAfterExit(fs, out, effect) ==
    IF effect = "keep" THEN fs ELSE fs \cup {out}

NonemptyAfterExit(ne, out, effect) ==
    IF effect = "keep" THEN ne
    ELSE IF effect = "full" THEN ne \cup {out} ELSE ne \ {out}

\* _cleanup_temp_files
CleanupTempFiles(fs, temp) ==
    IF temp # NoPath /\ temp \in fs THEN fs \ {temp} ELSE fs

\* a plausible slip: the exit code is not looked at
IsSuccess_AnyCode(code, output_exists, output_size) ==
    output_exists /\ output_size > 0

\* the success condition of line 384
IsSuccess(code, output_exists, output_size) ==
    (code = 0 \/ code = -22) /\ output_exists /\ output_size > 0

\* the retry branch of line 387
IsRetryBranch(retry, output_size) == ~retry /\ output_size = 0

\* a plausible slip: the retry branch launches the process again
ProcStateAfterFinished_Relaunch(retry, output_size) ==
    IF IsRetryBranch(retry, output_size) THEN "Running" ELSE "NotRunning"

\* _on_finished never calls proc.start
ProcStateAfterFinished(retry, output_size) == "NotRunning"

OnFinished(code, effect) ==
    /\ procState = "Running"
    /\ LET fs1 == FilesAfterExit(files, procOut, effect)
           ne1 == NonemptyAfterExit(nonempty, procOut, effect)
           fs2 == CleanupTempFiles(fs1, temp_ass_path)
           ne2 == ne1 \cap fs2
           output_exists == output_video \in fs2
           output_size == IF output_video \in ne2 THEN 1 ELSE 0
       IN  /\ exited' = [done |-> TRUE, code |-> code]
           /\ procState' = ProcStateAfterFinished(retry_mode, output_size)
           /\ launches' = IF procState' = "Running"
                          THEN launches + 1 ELSE launches
           /\ IF IsSuccess(code, output_exists, output_size)
              THEN /\ signals' = signals \o
                                 <<Progress(100), Finished(output_video)>>
                   /\ files' = fs2
                   /\ nonempty' = ne2
                   /\ UNCHANGED retry_mode
              ELSE IF IsRetryBranch(retry_mode, output_size)
              THEN /\ retry_mode' = TRUE
                   /\ signals' = Append(signals, Error("empty", code))
                   /\ files' = fs2
                   /\ nonempty' = ne2
              ELSE /\ files' = IF output_exists /\ output_size = 0
                               THEN fs2 \ {output_video} ELSE fs2
                   /\ nonempty' = ne2
                   /\ signals' = Append(signals, Error("exit", code))
                   /\ UNCHANGED retry_mode
    /\ UNCHANGED <<input_video, output_video, temp_ass_path, duration_sec,
                   procOut, jobs, chunks, call>>

\* ------------------------------------------- process_bilingual_event
\* Text is a sequence of tokens: Ch(c) is the character c; Dir(...) is the
\* body of an inline style directive, \fn<fam>\fs<fs>\b<bold>\c<color>,
\* which the code writes between "{" and "}".
Ch(c) == [ch |-> c, fam |-> "", fs |-> 0, bold |-> 0, color |-> ""]

Dir(fam, fs, bold, color) ==
    [ch |-> "dir", fam |-> fam, fs |-> fs, bold |-> bold, color |-> color]

\* the characters cue texts are built from ("U4E2D" is the one character
\* U+4E2D)
Alphabet == {"a", "U4E2D", "{", "}", "\\", "N", "\n", " "}

\* the characters classified strings are built from: the two ends of the
\* CJK unified range, the code points next to them, a kana, a fullwidth
\* punctuation mark, and a letter
ClassifyChars == {"a", "U4E00", "U9FFF", "U4DFF", "UA000", "U3042", "UFF01"}

\* ord(c)
CodePoint(c) ==
    CASE c = "\n" -> 10
      [] c = " " -> 32
      [] c = "N" -> 78
      [] c = "\\" -> 92
      [] c = "a" -> 97
      [] c = "{" -> 123
      [] c = "}" -> 125
      [] c = "U3042" -> 12354
      [] c = "U4DFF" -> 19967
      [] c = "U4E00" -> 19968
      [] c = "U4E2D" -> 20013
      [] c = "U9FFF" -> 40959
      [] c = "UA000" -> 40960
      [] c = "UFF01" -> 65281

\* the ends of the character class of CN_RE, \u4e00 and \u9fff
CjkFirst == 19968

CjkLast == 40959

\* a plausible slip: the upper end left out of the class
InCjkRange_OpenEnd(cp) == CjkFirst <= cp /\ cp < CjkLast

\* [\u4e00-\u9fff]
InCjkRange(cp) == CjkFirst <= cp /\ cp <= CjkLast

\* CN_RE: the characters of the model that the class matches
CJKChars == {c \in Alphabet \cup ClassifyChars : InCjkRange(CodePoint(c))}

\* longest cue text
MaxLen == 4

Texts == UNION {[1..n -> {Ch(c) : c \in Alphabet}] : n \in 0..MaxLen}

\* first index j >= i with s[j] = Ch(c), or 0
RECURSIVE IndexFrom(_, _, _)
IndexFrom(s, i, c) ==
    IF i > Len(s) THEN 0
    ELSE IF s[i].ch = c THEN i ELSE IndexFrom(s, i + 1, c)

\* re.sub(r"\{.*?\}", "", text) from position i on: "." does not match a
\* newline, and the match is the shortest one
RECURSIVE StripTagsFrom(_, _)
StripTagsFrom(s, i) ==
    IF i > Len(s) THEN << >>
    ELSE LET j == IndexFrom(s, i + 1, "}")
             nl == IndexFrom(s, i + 1, "\n")
         IN  IF s[i].ch = "{" /\ j # 0 /\ (nl = 0 \/ nl > j)
             THEN StripTagsFrom(s, j + 1)
             ELSE <<s[i]>> \o StripTagsFrom(s, i + 1)

StripTags(s) == StripTagsFrom(s, 1)

IsSpace(t) == t.ch \in {" ", "\n"}

\* str.strip()
RECURSIVE Strip(_)
Strip(s) ==
    IF s = << >> THEN s
    ELSE IF IsSpace(s[1]) THEN Strip(Tail(s))
    ELSE IF IsSpace(s[Len(s)]) THEN Strip(SubSeq(s, 1, Len(s) - 1))
    ELSE s

\* re.split(r"\\[Nn]|\n", s): cur is the line being collected
RECURSIVE SplitFrom(_, _, _)
SplitFrom(s, i, cur) ==
    IF i > Len(s) THEN <<cur>>
    ELSE IF s[i].ch = "\n" THEN <<cur>> \o SplitFrom(s, i + 1, << >>)
    ELSE IF s[i].ch = "\\" /\ i < Len(s) /\ s[i + 1].ch \in {"N", "n"}
         THEN <<cur>> \o SplitFrom(s, i + 2, << >>)
    ELSE SplitFrom(s, i + 1, Append(cur, s[i]))

SplitLines(s) == SplitFrom(s, 1, << >>)

\* the raw lines of a cue text (lines 68-70)
RawLines(text) == SplitLines(Strip(StripTags(text)))

\* bool(CN_RE.search(line))
IsCn(line) == \E i \in DOMAIN line : line[i].ch \in CJKChars

\* is_chinese of subtitle_editor_logic.py: the loop over the characters,
\* returning at the first one between \u4e00 and \u9fff
RECURSIVE IsChinese(_)
IsChinese(text) ==
    IF text = << >> THEN FALSE
    ELSE IF CodePoint("U4E00") <= CodePoint(text[1].ch)
            /\ CodePoint(text[1].ch) <= CodePoint("U9FFF")
         THEN TRUE
         ELSE IsChinese(Tail(text))

\* a plausible slip: every line sized with the base style's factor 0.04
FontSize_BaseStyle(height, factor) == (height * 40) \div 1000

\* int(video_height * factor), the factor in thousandths
FontSize(height, factor) == (height * factor) \div 1000

\* a plausible slip: the line is re-wrapped, a break put after every character
LineText_Rewrapped(line) ==
    IF Len(line) <= 1 THEN line
    ELSE <<line[1], Ch("\\"), Ch("N")>> \o SubSeq(line, 2, Len(line))

\* the text placed after the directive: the raw line as it is (lines 90, 104)
LineText(line) == line

\* format_line (lines 85-90); bold is 1 or 0
FormatLine(line, is_cn, bold, height, zhf, otf, zhc, otc) ==
    <<Ch("{"),
      Dir(IF is_cn THEN "Microsoft YaHei" ELSE "Arial",
          IF is_cn THEN FontSize(height, zhf) ELSE FontSize(height, otf),
          bold,
          IF is_cn THEN zhc ELSE otc),
      Ch("}")>> \o LineText(line)

\* process_bilingual_event: the event's text after the call
ProcessBilingualEvent(text, height, zhf, otf, zhc, otc) ==
    LET lines == RawLines(text)
    IN  IF Len(lines) >= 2
        THEN FormatLine(lines[1], IsCn(lines[1]),
                        IF IsCn(lines[1]) THEN 1 ELSE 0,
                        height, zhf, otf, zhc, otc)
             \o <<Ch("\\"), Ch("N")>> \o
             FormatLine(lines[2], IsCn(lines[2]),
                        IF IsCn(lines[2]) THEN 1 ELSE 0,
                        height, zhf, otf, zhc, otc)
        ELSE IF Len(lines) = 1
        THEN FormatLine(lines[1], IsCn(lines[1]), 1,
                        height, zhf, otf, zhc, otc)
        ELSE text

\* the frame sizes (width, height) a video may have: landscape, portrait
Geometries == {[width |-> 1920, height |-> 1080],
               [width |-> 1080, height |-> 1920]}

\* chinese_fontsize_factor in thousandths: the default 0.045, and 0.5
ZhFactors == {45, 500}

\* other_fontsize_factor in thousandths: the default 0.04, and 0.5
OtherFactors == {40, 500}

\* the call records before any call
NoPreviewResult ==
    [ret |-> "", launched |-> FALSE, seek |-> -1, selected |-> 0,
     events |-> << >>, cues |-> << >>, temp_created |-> FALSE,
     temp_exists |-> FALSE, image |-> ""]

PreviewIdle == [phase |-> "idle", cues |-> << >>, pre |-> "", probe |-> "",
                save |-> "", run |-> "", effect |-> "", before |-> "",
                res |-> NoPreviewResult]

NoTrack == [style |-> [fontsize |-> 0, marginv |-> 0, alignment |-> 0],
            events |-> << >>]

TrackIdle == [phase |-> "idle", cues |-> << >>, probe |-> "",
              geo |-> [width |-> 0, height |-> 0], load |-> "", save |-> "",
              margin |-> 0,
              res |-> [raised |-> FALSE,
                       probed |-> [width |-> 0, height |-> 0],
                       saved |-> FALSE, out |-> NoTrack]]

StyleIdle == [phase |-> "idle", text |-> << >>, out |-> << >>,
              again |-> << >>,
              geo |-> [width |-> 0, height |-> 0], zhf |-> 0, otf |-> 0]

ClassifyIdle == [phase |-> "idle", text |-> << >>, re |-> FALSE,
                 loop |-> FALSE, again |-> FALSE]

TempsIdle == [phase |-> "idle", op1 |-> "", op2 |-> "", pid1 |-> "",
              pid2 |-> "", video1 |-> NoPath, video2 |-> NoPath,
              srt1 |-> NoPath, srt2 |-> NoPath, path1 |-> NoPath,
              path2 |-> NoPath]

OverlapIdle == [happened |-> FALSE, first |-> NoCall]

SwapIdle == [phase |-> "idle", subs |-> << >>, up |-> FALSE,
             once |-> << >>, twice |-> << >>]

\* translation tasks started in one behaviour
MaxTasks == 2

\* get_job requests in flight at one time
MaxInFlight == 2

\* the job ids the server hands out: the k-th task gets job id k
JobIds == 1..MaxTasks

\* the main window after construction: no _busy, _current_job_id,
\* _notfound_retries, _completed_jobs or pollTimer attribute yet.
\*   audio     the audio worker's process ("idle" or "running")
\*   upload    _currentUploadReply ("none" or "inflight"), posted by task utask
\*   older     upload replies posted before _currentUploadReply and not
\*             finished yet
\*   job       _current_job_id, 0 for None
\*   timer     whether self.pollTimer is active
\*   orphans   active poll timers that self.pollTimer no longer names
\*   shots     single-shot polls not fired yet
\*   inflight  get_job requests without a reply yet, per job id
\* downloads, redone, streak, over, failedAt and outcome record what has
\* happened and are not fields of the window: the calls of _download_results
\* per job id (2 stands for two or more), the job ids with a Done reply
\* handled after the first one, the consecutive 404 replies for the current
\* job, whether a reply for the current job has ended it, the value of
\* streak when a 404 ended it (0: none has), and the outcome of the task
\* last started.
MwIdle == [busy |-> FALSE, tasks |-> 0, audio |-> "idle", upload |-> "none",
           utask |-> 0, older |-> 0, job |-> 0, timer |-> FALSE,
           orphans |-> 0, shots |-> 0, inflight |-> [j \in JobIds |-> 0],
           notfound |-> 0, completed |-> {},
           downloads |-> [j \in JobIds |-> 0], redone |-> {},
           streak |-> 0, over |-> FALSE, failedAt |-> 0, outcome |-> "none"]

\* a cue text and the style parameters of one call
InitStyle ==
    /\ InitEmbedder
    /\ track = TrackIdle
    /\ preview = PreviewIdle
    /\ classify = ClassifyIdle
    /\ temps = TempsIdle
    /\ overlap = OverlapIdle
    /\ swap = SwapIdle
    /\ mw = MwIdle
    /\ \E text \in Texts, geo \in Geometries, zhf \in ZhFactors,
          otf \in OtherFactors :
          style = [phase |-> "input", text |-> text, out |-> << >>,
                   again |-> << >>,
                   geo |-> geo, zhf |-> zhf, otf |-> otf]

\* process_bilingual_event applied to the event
StyleCue ==
    /\ style.phase = "input"
    /\ style' = [style EXCEPT
                    !.phase = "styled",
                    !.out = ProcessBilingualEvent(style.text, style.geo.height,
                                style.zhf, style.otf, "&H00C3FF", "&H00FFFFFF")]
    /\ UNCHANGED <<evars, track, preview, classify, temps, overlap, swap, mw>>

\* process_bilingual_event applied to the event it has already styled
RestyleCue ==
    /\ style.phase = "styled"
    /\ style' = [style EXCEPT
                    !.phase = "restyled",
                    !.again = ProcessBilingualEvent(style.out, style.geo.height,
                                style.zhf, style.otf, "&H00C3FF", "&H00FFFFFF")]
    /\ UNCHANGED <<evars, track, preview, classify, temps, overlap, swap, mw>>

NextStyle == StyleCue \/ RestyleCue

SpecStyle == InitStyle /\ [][NextStyle]_vars

\* ---------------------------------------------------------- classification
ClassifyTexts ==
    UNION {[1..n -> {Ch(c) : c \in ClassifyChars}] : n \in 0..MaxLen}

InitClassify ==
    /\ InitEmbedder
    /\ style = StyleIdle
    /\ track = TrackIdle
    /\ preview = PreviewIdle
    /\ temps = TempsIdle
    /\ overlap = OverlapIdle
    /\ swap = SwapIdle
    /\ mw = MwIdle
    /\ \E text \in ClassifyTexts :
          classify = [ClassifyIdle EXCEPT !.phase = "input", !.text = text]

\* the string classified by the processor's pattern, by the editor's loop,
\* and by the pattern once more
Classify ==
    /\ classify.phase = "input"
    /\ classify' = [classify EXCEPT !.phase = "done",
                                    !.re = IsCn(classify.text),
                                    !.loop = IsChinese(classify.text),
                                    !.again = IsCn(classify.text)]
    /\ UNCHANGED <<evars, style, track, preview, temps, overlap, swap, mw>>

NextClassify == Classify

SpecClassify == InitClassify /\ [][NextClassify]_vars

\* ------------------------------------------------ temporary track names
\* os.getpid() of the processes that may run the program
Pids == {"p101", "p102", "p103"}

\* the videos of the two operations
TempVideos == {MkPath(<<"a">>), [dir |-> "/e", stem |-> <<"a">>, ext |-> ".mp4"]}

\* their cue files: two of the same name in different directories, and one
\* of another name
TempSrts == {[dir |-> "/d", stem |-> <<"s">>, ext |-> ".srt"],
             [dir |-> "/t", stem |-> <<"s">>, ext |-> ".srt"],
             [dir |-> "/t", stem |-> <<"t">>, ext |-> ".srt"]}

\* the operations that write a temporary track
TempOps == {"embed", "preview"}

\* create_preview_frame lines 202-205: "_temp_preview_<pid>.ass" beside the
\* video
PreviewTempPath(video, pid) ==
    [dir |-> video.dir, stem |-> <<"_temp_preview_", pid>>, ext |-> ".ass"]

\* the temporary track path of an operation run by process pid
TempTrackPath(op, video, srt, pid) ==
    IF op = "embed" THEN TempAssPath(video, srt)
    ELSE PreviewTempPath(video, pid)

InitTemps ==
    /\ InitEmbedder
    /\ style = StyleIdle
    /\ track = TrackIdle
    /\ preview = PreviewIdle
    /\ classify = ClassifyIdle
    /\ overlap = OverlapIdle
    /\ swap = SwapIdle
    /\ mw = MwIdle
    /\ \E op1 \in TempOps, op2 \in TempOps, pid1 \in Pids, pid2 \in Pids,
          video1 \in TempVideos, video2 \in TempVideos,
          srt1 \in TempSrts, srt2 \in TempSrts :
          temps = [TempsIdle EXCEPT !.phase = "input", !.op1 = op1,
                      !.op2 = op2, !.pid1 = pid1, !.pid2 = pid2,
                      !.video1 = video1, !.video2 = video2,
                      !.srt1 = srt1, !.srt2 = srt2]

\* both operations name their temporary track
NameTemps ==
    /\ temps.phase = "input"
    /\ temps' = [temps EXCEPT
                    !.phase = "named",
                    !.path1 = TempTrackPath(temps.op1, temps.video1,
                                            temps.srt1, temps.pid1),
                    !.path2 = TempTrackPath(temps.op2, temps.video2,
                                            temps.srt2, temps.pid2)]
    /\ UNCHANGED <<evars, style, track, preview, classify, overlap, swap, mw>>

NextTemps == NameTemps

SpecTemps == InitTemps /\ [][NextTemps]_vars

\* ------------------------------------- probe_video_size, convert_srt_to_ass
\* what running the media-inspection tool can do: report the frame size;
\* not start (tool absent); exit non-zero; print something that is no JSON;
\* print JSON with no video stream
ProbeOutcomes == {"ok", "tool_missing", "nonzero_exit", "bad_json",
                  "no_streams"}

\* the fallback frame size of line 34
FallbackGeometry == [width |-> 1920, height |-> 1080]

\* a plausible slip: only the tool's failure is caught, not the parsing
ProbeRaises_NarrowExcept(outcome) == outcome \in {"bad_json", "no_streams"}

\* probe_video_size: "except Exception" lets no failure of the tool out
ProbeRaises(outcome) == FALSE

\* probe_video_size: (width, height) returned; geo is what the tool reports
ProbeVideoSize(outcome, geo) ==
    IF outcome = "ok" THEN geo ELSE FallbackGeometry

\* cue texts of the track and preview models
CueTexts == {<<Ch("a")>>,
             <<Ch("U4E2D"), Ch("U4E2D")>>,
             <<Ch("a"), Ch("\n"), Ch("U4E2D")>>,
             <<Ch("a"), Ch("a"), Ch("a"), Ch("a"), Ch("a")>>}

\* cue timings in milliseconds, as a cue file may give them
CueStarts == {0, 12000}

CueEnds == {4000, 15000}

Cues == [start : CueStarts, end : CueEnds, text : CueTexts]

\* most cues in a cue file
MaxCues == 2

CueLists == UNION {[1..n -> Cues] : n \in 0..MaxCues}

\* margin_v: 0 stands for None
Margins == {0, 50}

\* create_ass_style: the "Default" style
CreateAssStyle(height, margin_v) ==
    [fontsize |-> (height * 40) \div 1000,
     marginv |-> IF margin_v = 0 THEN (height * 100) \div 1000 ELSE margin_v,
     alignment |-> 2]

\* a plausible slip: the events come out in the opposite order
StyleEvents_Reversed(events, height, zhf, otf, zhc, otc) ==
    [k \in DOMAIN events |->
        [events[Len(events) + 1 - k] EXCEPT
            !.text = ProcessBilingualEvent(events[Len(events) + 1 - k].text,
                                           height, zhf, otf, zhc, otc)]]

\* lines 130-133: every event styled in place, timings untouched
StyleEvents(events, height, zhf, otf, zhc, otc) ==
    [k \in DOMAIN events |->
        [events[k] EXCEPT
            !.text = ProcessBilingualEvent(events[k].text, height,
                                           zhf, otf, zhc, otc)]]

\* convert_srt_to_ass: [raised, probed, saved, out]: whether it raises,
\* the frame size it works with, whether subs.save was reached, and the
\* track written to ass_path
ConvertSrtToAss(cues, probe, geo, load, save, margin_v, zhf, otf, zhc, otc) ==
    LET size == ProbeVideoSize(probe, geo)
    IN  IF ProbeRaises(probe) \/ load # "ok"
        THEN [raised |-> TRUE, probed |-> size, saved |-> FALSE,
              out |-> NoTrack]
        ELSE [raised |-> save # "ok", probed |-> size, saved |-> TRUE,
              out |-> IF save = "ok"
                      THEN [style |-> CreateAssStyle(size.height, margin_v),
                            events |-> StyleEvents(cues, size.height,
                                                   zhf, otf, zhc, otc)]
                      ELSE NoTrack]

\* pysubs2.load / subs.save
IoOutcomes == {"ok", "error"}

InitTrack ==
    /\ InitEmbedder
    /\ style = StyleIdle
    /\ preview = PreviewIdle
    /\ classify = ClassifyIdle
    /\ temps = TempsIdle
    /\ overlap = OverlapIdle
    /\ swap = SwapIdle
    /\ mw = MwIdle
    /\ \E cues \in CueLists, probe \in ProbeOutcomes, geo \in Geometries,
          load \in IoOutcomes, save \in IoOutcomes, margin \in Margins :
          track = [TrackIdle EXCEPT !.phase = "input", !.cues = cues,
                      !.probe = probe, !.geo = geo, !.load = load,
                      !.save = save, !.margin = margin]

\* convert_srt_to_ass with the default factors and colours
Convert ==
    /\ track.phase = "input"
    /\ track' = [track EXCEPT
                    !.phase = "done",
                    !.res = ConvertSrtToAss(track.cues, track.probe, track.geo,
                                track.load, track.save, track.margin,
                                45, 40, "&H00C3FF", "&H00FFFFFF")]
    /\ UNCHANGED <<evars, style, preview, classify, temps, overlap, swap, mw>>

NextTrack == Convert

SpecTrack == InitTrack /\ [][NextTrack]_vars

\* ---------------------------------------------------- swap_chinese_english
\* str.lstrip("\n")
RECURSIVE LStripNl(_)
LStripNl(s) ==
    IF s # << >> /\ s[1].ch = "\n" THEN LStripNl(Tail(s)) ELSE s

\* str.rstrip("\n")
RECURSIVE RStripNl(_)
RStripNl(s) ==
    IF s # << >> /\ s[Len(s)].ch = "\n"
    THEN RStripNl(SubSeq(s, 1, Len(s) - 1))
    ELSE s

\* str.split("\n") from position i on: cur is the line being collected
RECURSIVE SplitNlFrom(_, _, _)
SplitNlFrom(s, i, cur) ==
    IF i > Len(s) THEN <<cur>>
    ELSE IF s[i].ch = "\n" THEN <<cur>> \o SplitNlFrom(s, i + 1, << >>)
    ELSE SplitNlFrom(s, i + 1, Append(cur, s[i]))

SplitNl(s) == SplitNlFrom(s, 1, << >>)

\* line 32: the first line of the first cue
FirstLine(content) == SplitNl(LStripNl(content))[1]

\* lines 44-60: one cue of the swapping loop; index is the loop's counter
SwapCue(sub, index) ==
    LET tem == SplitNl(RStripNl(LStripNl(sub.content)))
    IN  IF Len(tem) < 2 THEN sub
        ELSE [sub EXCEPT !.index = index,
                         !.content = tem[Len(tem)] \o <<Ch("\n")>> \o tem[1]]

\* swap_chinese_english
SwapChineseEnglish(subs, chinese_up) ==
    IF subs = << >> THEN subs
    ELSE IF IsChinese(FirstLine(subs[1].content)) = chinese_up THEN subs
    ELSE [k \in DOMAIN subs |-> SwapCue(subs[k], k)]

\* cue contents of the editor: one line; two lines in either order; three
\* lines; two lines inside a leading and a trailing newline
SwapContents == {<<Ch("a")>>,
                 <<Ch("U4E2D"), Ch("\n"), Ch("a")>>,
                 <<Ch("a"), Ch("\n"), Ch("U4E2D")>>,
                 <<Ch("a"), Ch("\n"), Ch("a"), Ch("\n"), Ch("U4E2D")>>,
                 <<Ch("\n"), Ch("a"), Ch("\n"), Ch("U4E2D"), Ch("\n")>>}

\* cue timings in milliseconds
SwapTimes == {[start |-> 0, end |-> 4000], [start |-> 12000, end |-> 15000]}

\* the cue lists of the editor: the k-th cue has index k
SwapLists ==
    UNION {{[k \in 1..n |-> [index |-> k, start |-> tm[k].start,
                             end |-> tm[k].end, content |-> ct[k]]] :
                tm \in [1..n -> SwapTimes], ct \in [1..n -> SwapContents]} :
           n \in 0..MaxCues}

InitSwap ==
    /\ InitEmbedder
    /\ style = StyleIdle
    /\ track = TrackIdle
    /\ preview = PreviewIdle
    /\ classify = ClassifyIdle
    /\ temps = TempsIdle
    /\ overlap = OverlapIdle
    /\ mw = MwIdle
    /\ \E subs \in SwapLists, up \in BOOLEAN :
          swap = [SwapIdle EXCEPT !.phase = "input", !.subs = subs, !.up = up]

\* _process_subtitles with the option chinese_up or other_up
SwapOnce ==
    /\ swap.phase = "input"
    /\ swap' = [swap EXCEPT !.phase = "once",
                            !.once = SwapChineseEnglish(swap.subs, swap.up)]
    /\ UNCHANGED <<evars, style, track, preview, classify, temps, overlap, mw>>

\* the same option applied to the result
SwapTwice ==
    /\ swap.phase = "once"
    /\ swap' = [swap EXCEPT !.phase = "twice",
                            !.twice = SwapChineseEnglish(swap.once, swap.up)]
    /\ UNCHANGED <<evars, style, track, preview, classify, temps, overlap, mw>>

NextSwap == SwapOnce \/ SwapTwice

SpecSwap == InitSwap /\ [][NextSwap]_vars

\* ------------------------------------------- translation task, job polling
\* line 704: the 404 replies that do not fail the job
NotFoundAllowance == 20

\* _notfound_retries is not followed beyond this value
NotFoundCap == NotFoundAllowance + 2

\* extract(): an error signal before the process is started (lines 29-53), a
\* process that cannot be started (no signal at all), a process started
ExtractOutcomes == {"extract_error", "start_failed", "started"}

\* the end of the ffmpeg process and of _create_job_after_extract: exit code
\* other than 0 or no audio file, audio file not readable, upload posted
AudioOutcomes == {"exit_error", "unreadable", "posted"}

\* the upload reply: HTTP status >= 400, a body without job id, no HTTP status
\* at all, a body with a job id
UploadOutcomes == {"http_error", "no_id", "network_error", "ok"}

\* the get_job reply: HTTP 404, another HTTP error, a status that is neither
\* Done nor Error (or no HTTP status: _handle_reply passes {}), Done, Error
ReplyKinds == {"NotFound", "OtherError", "Pending", "Done", "Error"}

\* get_job requests without a reply
InFlightTotal(w) ==
    LET RECURSIVE Sum(_)
        Sum(n) == IF n = 0 THEN 0 ELSE w.inflight[n] + Sum(n - 1)
    IN  Sum(MaxTasks)

\* _poll_current: a get_job request for _current_job_id, none without one
PollCurrent(w) ==
    IF w.job = 0 THEN w
    ELSE [w EXCEPT !.inflight[w.job] = @ + 1]

\* the poll can be sent within the bound on requests in flight
MayPoll(w) == w.job = 0 \/ InFlightTotal(w) < MaxInFlight

\* lines 708-714, 743-749: pollTimer.stop() and the busy flag cleared
StopAndClear(w) == [w EXCEPT !.timer = FALSE, !.busy = FALSE]

\* a plausible slip: every Done reply starts the download
AlreadyCompleted_NoGuard(completed, jid) == FALSE

\* line 735: getattr(self, "_completed_jobs", {}).get(jid)
AlreadyCompleted(completed, jid) == jid \in completed

\* one more call, 2 standing for two or more
CountCall(n) == IF n < 2 THEN n + 1 ELSE n

\* _start_translation_task, then FFmpegAudioWorker.extract.  checks: the
\* checks of lines 475-523 pass.  A new worker replaces self.audio_worker.
StartTask(checks, ex) ==
    /\ ~mw.busy
    /\ mw.tasks < MaxTasks
    /\ mw' = IF ~checks THEN mw
             ELSE [mw EXCEPT
                     !.tasks = @ + 1,
                     !.busy = (ex # "extract_error"),
                     !.audio = IF ex = "started" THEN "running" ELSE "idle",
                     !.outcome = IF ex = "started" THEN "none" ELSE ex]
    /\ UNCHANGED <<evars, style, track, preview, classify, temps, overlap, swap>>

\* FFmpegAudioWorker._on_finished, then _audio_err or _audio_done and
\* _create_job_after_extract
AudioFinished(res) ==
    /\ mw.audio = "running"
    /\ mw' = IF res = "posted"
             THEN [mw EXCEPT !.audio = "idle",
                             !.older = IF mw.upload = "inflight" THEN @ + 1 ELSE @,
                             !.upload = "inflight",
                             !.utask = mw.tasks,
                             !.job = 0]
             ELSE [mw EXCEPT !.audio = "idle", !.busy = FALSE,
                             !.outcome = IF res = "exit_error"
                                         THEN "extract_error" ELSE res]
    /\ UNCHANGED <<evars, style, track, preview, classify, temps, overlap, swap>>

\* lines 855-890 for a reply that is _currentUploadReply and has finished
OnUploadFinished(w, res) ==
    CASE res = "http_error" ->
            [w EXCEPT !.upload = "none", !.busy = FALSE,
                      !.outcome = "upload_http_error"]
      [] res \in {"no_id", "network_error"} ->
            [w EXCEPT !.upload = "none", !.outcome = "upload_" \o res]
      [] res = "ok" ->
            [PollCurrent([w EXCEPT !.job = w.utask])
                EXCEPT !.upload = "none",
                       !.orphans = IF w.timer THEN @ + 1 ELSE @,
                       !.timer = TRUE,
                       !.shots = @ + 1,
                       !.streak = 0,
                       !.over = FALSE,
                       !.failedAt = 0]

\* _on_upload_finished.  current: the signal is that of _currentUploadReply.
\* Otherwise it is that of a reply posted earlier, and line 840 still hands
\* the handler _currentUploadReply: one in flight has no status and no body
\* and is given to deleteLater (gone: it then never finishes), one deleted
\* already makes the handler raise at line 855.
UploadFinished(current, res, gone) ==
    /\ IF current THEN mw.upload = "inflight" ELSE mw.older > 0
    /\ (current /\ res = "ok") => InFlightTotal(mw) < MaxInFlight
    /\ mw' = IF current THEN OnUploadFinished(mw, res)
             ELSE [mw EXCEPT !.older = @ - 1,
                             !.upload = IF gone THEN "none" ELSE @]
    /\ UNCHANGED <<evars, style, track, preview, classify, temps, overlap, swap>>

\* the timeout of an active poll timer: _poll_current
TimerPoll ==
    /\ mw.timer \/ mw.orphans > 0
    /\ mw.job # 0
    /\ MayPoll(mw)
    /\ mw' = PollCurrent(mw)
    /\ UNCHANGED <<evars, style, track, preview, classify, temps, overlap, swap>>

\* line 889: the single-shot poll
SingleShotPoll ==
    /\ mw.shots > 0
    /\ MayPoll(mw)
    /\ mw' = [PollCurrent(mw) EXCEPT !.shots = @ - 1]
    /\ UNCHANGED <<evars, style, track, preview, classify, temps, overlap, swap>>

\* _on_api, op get_job: the reply to a request for job id jid
OnGetJob(w, jid, kind) ==
    LET mine == jid = w.job
        \* the handler ends the job: lines 708-714 and 743-749
        End(c) == [StopAndClear(c) EXCEPT !.over = @ \/ mine]
    IN  CASE kind = "NotFound" ->
               LET n == w.notfound + 1
                   k == IF mine THEN w.streak + 1 ELSE w.streak
                   c == [w EXCEPT !.notfound = n, !.streak = k]
               IN  IF n <= NotFoundAllowance THEN c
                   ELSE [End(c) EXCEPT
                            !.failedAt = IF mine /\ ~w.over THEN k ELSE @,
                            !.outcome = "poll_error"]
          [] kind = "OtherError" ->
               [End(w) EXCEPT !.streak = IF mine THEN 0 ELSE @,
                              !.outcome = "poll_error"]
          [] kind = "Pending" ->
               [w EXCEPT !.notfound = 0, !.streak = IF mine THEN 0 ELSE @]
          [] kind = "Done" ->
               LET c == [w EXCEPT !.notfound = 0,
                                  !.streak = IF mine THEN 0 ELSE @,
                                  !.outcome = "done"]
               IN  IF AlreadyCompleted(w.completed, jid)
                   THEN End([c EXCEPT !.redone = @ \cup {jid}])
                   ELSE End([c EXCEPT
                            !.completed = @ \cup {jid},
                            !.downloads[jid] = CountCall(@),
                            !.redone = IF w.downloads[jid] > 0
                                       THEN @ \cup {jid} ELSE @])
          [] kind = "Error" ->
               [End(w) EXCEPT !.notfound = 0,
                              !.streak = IF mine THEN 0 ELSE @,
                              !.outcome = "error"]

GetJobReply(jid, kind) ==
    /\ mw.inflight[jid] > 0
    /\ kind = "NotFound" => mw.notfound < NotFoundCap
    /\ mw' = OnGetJob([mw EXCEPT !.inflight[jid] = @ - 1], jid, kind)
    /\ UNCHANGED <<evars, style, track, preview, classify, temps, overlap, swap>>

Delivered ==
    \/ \E res \in AudioOutcomes : AudioFinished(res)
    \/ \E current \in BOOLEAN, res \in UploadOutcomes, gone \in BOOLEAN :
          UploadFinished(current, res, gone)
    \/ TimerPoll
    \/ SingleShotPoll
    \/ \E jid \in JobIds, kind \in ReplyKinds : GetJobReply(jid, kind)

NextTask ==
    \/ \E checks \in BOOLEAN, ex \in ExtractOutcomes : StartTask(checks, ex)
    \/ Delivered

\* ---------------------------------------------------- create_preview_frame
\* lines 150-167: everything is in place and the cue file loads, or the
\* tool, the video or the cue file is missing, or pysubs2.load raises
PreChecks == {"ok", "no_ffmpeg", "no_video", "no_subtitle", "load_error"}

\* preview_subs.save: written; raises before the file is created; raises
\* after open(..., "w") has created it
SaveOutcomes == {"ok", "error_no_file", "error_file"}

\* the process, as seen when loop.exec_() returns: it finished with exit
\* code 0, finished with another code, is still running after 30 s, or
\* never started (finished is not emitted and the timer ends the wait)
RunOutcomes == {"exit_0", "exit_1", "timeout", "failed_to_start"}

\* the file at output_image before the call
ImageStates == {"absent", "empty", "full"}

\* the media-inspection tool in the preview model: it reports a portrait
\* frame, or it is absent
PreviewProbes == {"ok", "tool_missing"}

\* the cues of the preview model
PreviewCues == {c \in Cues : c.end = 15000 /\ Len(c.text) <= 2}

PreviewCueLists == UNION {[1..n -> PreviewCues] : n \in 0..MaxCues}

\* a plausible slip: the last cue is taken
SelectCue_Last(cues) == Len(cues)

\* line 177: first_sub = subs.events[0] (as an index from 1)
SelectCue(cues) == 1

\* a plausible slip: the time is read from the event after its start was
\* forced to 0
SeekMs_FromClone(first_sub, preview_event) == preview_event.start

\* line 179: seek_timestamp = first_sub.start / 1000.0, kept in milliseconds
SeekMs(first_sub, preview_event) == first_sub.start

\* lines 189-199: the preview event
PreviewEvent(first_sub, height) ==
    [start |-> 0, end |-> 5000,
     text |-> ProcessBilingualEvent(first_sub.text, height, 45, 40,
                                    "&H00C3FF", "&H00FFFFFF")]

\* a plausible slip: no copy, the loaded event itself is retimed and styled
CuesAfterPreview_NoCopy(cues, k, height) ==
    [cues EXCEPT ![k] = PreviewEvent(cues[k], height)]

\* line 189: first_sub.copy() leaves the loaded cue list as it was
CuesAfterPreview(cues, k, height) == cues

\* the image after the process ran
ImageAfterRun(before, run, effect) ==
    IF run = "failed_to_start" \/ effect = "keep" THEN before ELSE effect

\* lines 149, 256-260: "except Exception" lets nothing out
PreviewEscapes(pre, save) == FALSE

\* lines 250-254
PreviewResult(image) == IF image = "full" THEN "true" ELSE "false"

\* create_preview_frame
CreatePreviewFrame(cues, pre, probe, save, run, effect, before) ==
    LET early == [NoPreviewResult EXCEPT !.ret = "false", !.cues = cues,
                                         !.image = before]
        height == ProbeVideoSize(probe, [width |-> 1080, height |-> 1920]).height
        k == SelectCue(cues)
        event == PreviewEvent(cues[k], height)
        built == [early EXCEPT !.selected = k,
                               !.cues = CuesAfterPreview(cues, k, height)]
        image == ImageAfterRun(before, run, effect)
    IN  IF pre # "ok"
        THEN [early EXCEPT !.ret = IF pre = "load_error" /\ PreviewEscapes(pre, "ok")
                                   THEN "raised" ELSE "false"]
        ELSE IF cues = << >> THEN early
        ELSE IF save # "ok"
        THEN [built EXCEPT !.ret = IF PreviewEscapes(pre, save)
                                   THEN "raised" ELSE "false",
                           !.temp_created = (save = "error_file"),
                           !.temp_exists = (save = "error_file")]
        ELSE [built EXCEPT !.ret = PreviewResult(image),
                           !.launched = (run # "failed_to_start"),
                           !.seek = SeekMs(cues[k], event),
                           !.events = <<event>>,
                           !.temp_created = TRUE,
                           !.temp_exists = FALSE,
                           !.image = image]

InitPreview ==
    /\ InitEmbedder
    /\ style = StyleIdle
    /\ track = TrackIdle
    /\ classify = ClassifyIdle
    /\ temps = TempsIdle
    /\ overlap = OverlapIdle
    /\ swap = SwapIdle
    /\ mw = MwIdle
    /\ \E cues \in PreviewCueLists, pre \in PreChecks, probe \in PreviewProbes,
          save \in SaveOutcomes, run \in RunOutcomes,
          effect \in OutputEffects, before \in ImageStates :
          preview = [PreviewIdle EXCEPT !.phase = "input", !.cues = cues,
                        !.pre = pre, !.probe = probe, !.save = save,
                        !.run = run, !.effect = effect, !.before = before]

Preview ==
    /\ preview.phase = "input"
    /\ preview' = [preview EXCEPT
                      !.phase = "done",
                      !.res = CreatePreviewFrame(preview.cues, preview.pre,
                                  preview.probe, preview.save, preview.run,
                                  preview.effect, preview.before)]
    /\ UNCHANGED <<evars, style, track, classify, temps, overlap, swap, mw>>

NextPreview == Preview

SpecPreview == InitPreview /\ [][NextPreview]_vars

\* ---------------------------------------------------------- specification
NextEmbedder ==
    \/ \E video \in VideoPaths, srt \in SrtPaths, output \in OutputPaths,
          conv \in ConvertOutcomes, start \in StartOutcomes :
            Embed(video, srt, output, conv, start)
    \/ \E dmark \in DurationMarkers, tmark \in TimeMarkers :
            OnOutput(dmark, tmark)
    \/ \E code \in ExitCodes, effect \in OutputEffects :
            OnFinished(code, effect)

\* embed() called while the process of an earlier call is running: the
\* fields are overwritten and the track is built as in any call, and
\* QProcess.start on a running process starts nothing. Notifications
\* accumulate over the two calls.
EmbedWhileRunning(video, srt, output, conv) ==
    /\ procState = "Running"
    /\ ~overlap.happened
    /\ jobs < MaxJobs
    /\ jobs' = jobs + 1
    /\ overlap' = [happened |-> TRUE, first |-> call]
    /\ call' = [video |-> video, srt |-> srt, output |-> output,
                conv |-> conv, start |-> "already_running",
                before |-> launches]
    /\ input_video' = video
    /\ retry_mode' = FALSE
    /\ temp_ass_path' = TempAssPath(video, srt)
    /\ files' = FilesAfterConvert(files, TempAssPath(video, srt), conv)
    /\ nonempty' = IF conv = "ok"
                   THEN nonempty \cup {TempAssPath(video, srt)}
                   ELSE IF conv = "save_error"
                        THEN nonempty \ {TempAssPath(video, srt)}
                        ELSE nonempty
    /\ IF ConvertRaises(conv)
       THEN /\ signals' = Append(signals, Error("convert", 0))
            /\ output_video' = output
       ELSE /\ signals' = signals
            /\ output_video' = RecordedOutput(video, output)
    /\ UNCHANGED <<duration_sec, procState, procOut, launches, chunks, exited,
                   style, track, preview, classify, temps, swap, mw>>

\* the embedder driven by a caller that does not wait for the running job
NextOverlap ==
    \/ /\ NextEmbedder
       /\ overlap' = IF jobs' # jobs THEN OverlapIdle ELSE overlap
       /\ UNCHANGED <<style, track, preview, classify, temps, swap, mw>>
    \/ \E video \in VideoPaths, srt \in SrtPaths, output \in OutputPaths,
          conv \in ConvertOutcomes :
            EmbedWhileRunning(video, srt, output, conv)

Init ==
    /\ InitEmbedder
    /\ style = StyleIdle
    /\ track = TrackIdle
    /\ preview = PreviewIdle
    /\ classify = ClassifyIdle
    /\ temps = TempsIdle
    /\ overlap = OverlapIdle
    /\ swap = SwapIdle
    /\ mw = MwIdle

Next ==
    /\ NextEmbedder
    /\ UNCHANGED <<style, track, preview, classify, temps, overlap, swap, mw>>

Spec == Init /\ [][Next]_vars

SpecOverlap == Init /\ [][NextOverlap]_vars

SpecTask == Init /\ [][NextTask]_vars

\* the event loop delivers every signal, reply and timeout that is due; the
\* user need not start a task
SpecTaskFair == SpecTask /\ WF_vars(Delivered)

\* ------------------------------------------------------------------ claims
LastSignal == signals[Len(signals)]

HasTerminal == Len(signals) > 0 /\ IsTerminal(LastSignal)

ProcessFailed == exited.done /\ HasTerminal /\ LastSignal.kind = "error"

\* C1: when an embed job emits its terminal notification (finished or
\* error), its temporary styled-track file no longer exists, on every exit
\* path, the exception during track construction included.
C1_TempRemovedAtTerminal ==
    HasTerminal => temp_ass_path \notin files

\* C2: every embed() call produces a terminal notification: whenever no
\* process is running, the last embed() call has reported finished or
\* error; a missing executable is reported at once through error.
C2_EveryEmbedNotified ==
    (jobs > 0 /\ procState = "NotRunning") => HasTerminal

\* C3: within one embed job the progress notifications are monotonically
\* non-decreasing, whatever chunks the process emits.
C3_ProgressMonotonic ==
    \A i, j \in DOMAIN signals :
        (i < j /\ signals[i].kind = "progress" /\ signals[j].kind = "progress")
            => signals[i].pct <= signals[j].pct

\* C4: every progress value emitted while the process runs is at most 99;
\* 100 is emitted only on the success transition, immediately before
\* finished, and never for a job that ends in failure.
C4_HundredOnlyOnSuccess ==
    /\ procState = "Running" =>
          \A i \in DOMAIN signals :
              signals[i].kind = "progress" => signals[i].pct <= 99
    /\ \A i \in DOMAIN signals :
          (signals[i].kind = "progress" /\ signals[i].pct > 99) =>
              /\ signals[i].pct = 100
              /\ i + 1 = Len(signals)
              /\ signals[i + 1].kind = "finished"
    /\ (HasTerminal /\ LastSignal.kind = "error") =>
          \A i \in DOMAIN signals : signals[i].pct # 100

\* C4 witness: a job has succeeded after a progress value was clamped to 99
C4_Witness ==
    /\ HasTerminal
    /\ LastSignal.kind = "finished"
    /\ \E i \in DOMAIN signals : signals[i] = Progress(99)

\* C5 (as claimed): a process that exits 0 and leaves a non-empty output
\* file makes the job emit progress 100 and then finished carrying exactly
\* the outputPath passed to embed().
C5_SuccessReportsPassedPath ==
    (exited.done /\ exited.code = 0 /\ procOut \in nonempty) =>
        /\ Len(signals) >= 2
        /\ signals[Len(signals) - 1] = Progress(100)
        /\ LastSignal = Finished(call.output)

\* C5 (amended): a process that exits 0 and leaves a non-empty output file
\* makes the job emit progress 100 and then finished carrying the path the
\* process was told to write: the outputPath passed to embed(), or, when
\* that equals the input video path ignoring letter case, that path with
\* "_new" put before its extension.
C5_SuccessReportsWrittenPath ==
    (exited.done /\ exited.code = 0 /\ procOut \in nonempty) =>
        /\ Len(signals) >= 2
        /\ signals[Len(signals) - 1] = Progress(100)
        /\ LastSignal = Finished(procOut)
        /\ Lower(call.video) # Lower(call.output) => procOut = call.output
        /\ Lower(call.video) = Lower(call.output) =>
              procOut = [dir |-> call.output.dir,
                         stem |-> call.output.stem \o <<"_new">>,
                         ext |-> call.output.ext]

\* C5 witness: a job whose output path was the input video has succeeded
C5_Witness ==
    /\ exited.done /\ exited.code = 0 /\ procOut \in nonempty
    /\ call.output = call.video
    /\ HasTerminal /\ LastSignal.kind = "finished"

C7_NoOutputAfterFailure ==
    ProcessFailed => output_video \notin files

\* C8: exit code 0 with a missing or zero-byte output is reported as the
\* empty-output failure, a non-zero exit as the exit failure carrying the
\* code; a non-zero exit is never reported as the empty-output failure.
C8_FailureReasonDistinguished ==
    ProcessFailed =>
        /\ exited.code = 0 => LastSignal.reason = "empty"
        /\ exited.code # 0 =>
              LastSignal.reason = "exit" /\ LastSignal.code = exited.code

\* C9: if building the styled track raises during embed(), the job reports
\* an error and the compositing process is never launched for that job.
C9_NoLaunchAfterTrackBuildFailure ==
    (jobs > 0 /\ ConvertRaises(call.conv)) =>
        /\ signals = <<Error("convert", 0)>>
        /\ procState = "NotRunning"
        /\ launches = call.before
        /\ ~exited.done

\* C9 witness: the track build raised in a call whose executable was
\* runnable
C9_Witness ==
    /\ jobs > 0
    /\ ConvertRaises(call.conv)
    /\ call.start = "started"

\* C10: the component never launches the compositing process by itself: a
\* process is started only in the step of an embed() call, also after the
\* zero-output failure that sets the retry flag.
C10_LaunchOnlyByEmbed ==
    [][(launches' # launches \/ (procState = "NotRunning" /\ procState' = "Running"))
          => jobs' = jobs + 1]_vars

\* C10 witness: the zero-output failure has set the retry flag and no
\* process is running
C10_Witness ==
    /\ retry_mode
    /\ ProcessFailed
    /\ LastSignal.reason = "empty"
    /\ procState = "NotRunning"

\* ------------------------------------------- claims on the embed job
\* C28: the duration used for progress belongs to the job: each embed()
\* call starts with an unknown duration, captured once from that job's own
\* Duration marker, and no progress value of a job is computed from a
\* duration captured during an earlier job.
C28_DurationBelongsToJob ==
    (jobs > 0 /\ chunks = 0 /\ ~exited.done) => duration_sec = 0

\* C30: the path the compositing process is told to write never equals the
\* input video path, compared without regard to letter case: when the
\* caller passes an output path equal to the input, the job writes to and
\* reports a distinct "_new" path.
C30_InputNeverOverwritten ==
    /\ (procState = "Running" \/ exited.done) =>
          /\ Lower(procOut) # Lower(input_video)
          /\ output_video = procOut
          /\ Lower(call.video) = Lower(call.output) =>
                procOut = [call.output EXCEPT
                              !.stem = call.output.stem \o <<"_new">>]
    /\ (HasTerminal /\ LastSignal.kind = "finished") =>
          /\ Lower(LastSignal.path) # Lower(input_video)
          /\ LastSignal.path = procOut

\* C30 witness: a job given the input video's path in another letter case
\* as its output has succeeded
C30_Witness ==
    /\ exited.done
    /\ call.output # call.video
    /\ Lower(call.output) = Lower(call.video)
    /\ HasTerminal
    /\ LastSignal.kind = "finished"

\* ------------------------------------------- claims on overlapping calls
\* the earlier of two overlapping embed() calls
EarlierOutput == OutputAbs(overlap.first.video, overlap.first.output)

EarlierTemp == TempAssPath(overlap.first.video, overlap.first.srt)

TerminalCount == Cardinality({i \in DOMAIN signals : IsTerminal(signals[i])})

\* C29: if embed() is called while the process of an earlier embed() is
\* running, the terminal handling that runs when the earlier process exits
\* belongs to the earlier job: it checks and reports the earlier job's
\* output path and removes the earlier job's temporary track file, and each
\* of the two calls gets its own terminal notification.
C29_EarlierJobKeepsItsExit ==
    (overlap.happened /\ exited.done) =>
        /\ EarlierTemp \notin files
        /\ (exited.code = 0 /\ EarlierOutput \in nonempty) =>
              LastSignal = Finished(EarlierOutput)
        /\ LastSignal.kind = "finished" => LastSignal.path = EarlierOutput
        /\ TerminalCount = 2

\* ------------------------------------------------- claims on styling
\* weight of a character: 2 for CJK / fullwidth / code point > 127, else 1
CharWeight(t) == IF t.ch \in CJKChars THEN 2 ELSE 1

RECURSIVE Weight(_)
Weight(line) ==
    IF line = << >> THEN 0 ELSE CharWeight(line[1]) + Weight(Tail(line))

\* the wrap coefficient in thousandths: 0.52 portrait, 1.32 landscape
Coeff(geo) == IF geo.height > geo.width THEN 520 ELSE 1320

\* a displayed line of the styled text without its leading directive
Undirected(d) ==
    IF Len(d) >= 3 /\ d[1].ch = "{" /\ d[2].ch = "dir" /\ d[3].ch = "}"
    THEN SubSeq(d, 4, Len(d))
    ELSE d

\* the lines the renderer is forced to display: the styled text split at
\* its line-break markers, directives taken off
DisplayLines(out) ==
    LET ls == SplitLines(out) IN [k \in DOMAIN ls |-> Undirected(ls[k])]

\* the raw lines that process_bilingual_event styles: the first two
StyledRawLines(text) ==
    LET ls == RawLines(text)
    IN  IF Len(ls) > 2 THEN SubSeq(ls, 1, 2) ELSE ls

\* C19: a line with a CJK code point is broken so that no resulting line
\* exceeds coeff / fontSizeFactor weighted units, except a line of a single
\* character.
C19_CjkLinesWrapped ==
    style.phase = "styled" =>
        \A d \in {DisplayLines(style.out)[k] :
                      k \in DOMAIN DisplayLines(style.out)} :
            IsCn(d) => (Weight(d) * style.zhf <= Coeff(style.geo) \/ Len(d) = 1)

\* C20: for a line with no CJK code point the text placed after the inline
\* style directive is the input line itself: no break inserted, no
\* character changed.
C20_OtherLinesUnchanged ==
    style.phase = "styled" =>
        LET raw == StyledRawLines(style.text)
            shown == SplitLines(style.out)
        IN  /\ Len(shown) = Len(raw)
            /\ \A k \in DOMAIN raw :
                  ~IsCn(raw[k]) =>
                      /\ Len(shown[k]) = Len(raw[k]) + 3
                      /\ shown[k][1] = Ch("{")
                      /\ shown[k][2].ch = "dir"
                      /\ shown[k][3] = Ch("}")
                      /\ SubSeq(shown[k], 4, Len(shown[k])) = raw[k]

\* C20 witness: a styled cue with a line of several characters, none CJK
C20_Witness ==
    /\ style.phase = "styled"
    /\ \E k \in DOMAIN StyledRawLines(style.text) :
          /\ ~IsCn(StyledRawLines(style.text)[k])
          /\ Len(StyledRawLines(style.text)[k]) >= 2
          /\ style.zhf = 500 /\ style.otf = 500

\* the non-empty lines among ls, in order
NonEmptyLines(ls) == SelectSeq(ls, LAMBDA l : l # << >>)

\* d starts with an inline directive
HasDirective(d) ==
    Len(d) >= 3 /\ d[1] = Ch("{") /\ d[2].ch = "dir" /\ d[3] = Ch("}")

\* C21: every non-empty raw line of a cue appears in the styled cue text,
\* in its original order and each with its own style directive, for cues
\* of any number of lines; empty lines are discarded and do not displace a
\* later line.
C21_EveryLineStyled ==
    style.phase = "styled" =>
        LET raw == NonEmptyLines(RawLines(style.text))
            shown == SplitLines(style.out)
        IN  raw # << >> =>
                /\ Len(shown) = Len(raw)
                /\ \A k \in DOMAIN raw :
                      /\ HasDirective(shown[k])
                      /\ Undirected(shown[k]) = raw[k]

\* C22: the bold flag of a line's inline directive is true if and only if
\* the line is classified CJK; a line classified OTHER is never bold, also
\* when it is the cue's only line.
C22_BoldIffCjk ==
    style.phase = "styled" =>
        \A k \in DOMAIN SplitLines(style.out) :
            LET d == SplitLines(style.out)[k]
            IN  HasDirective(d) => (d[2].bold = 1 <=> IsCn(Undirected(d)))

\* C23: for each styled line the font family, colour and font size of its
\* inline directive are those of the profile matching the line's own
\* classification, the font size being the frame height times that
\* profile's factor truncated to an integer, whatever the classification of
\* the cue's other lines.
C23_ProfileOfOwnClass ==
    style.phase = "styled" =>
        \A k \in DOMAIN SplitLines(style.out) :
            LET d == SplitLines(style.out)[k]
                cn == IsCn(Undirected(d))
            IN  /\ HasDirective(d)
                /\ d[2].fam = (IF cn THEN "Microsoft YaHei" ELSE "Arial")
                /\ d[2].color = (IF cn THEN "&H00C3FF" ELSE "&H00FFFFFF")
                /\ d[2].fs = (IF cn
                              THEN (style.geo.height * style.zhf) \div 1000
                              ELSE (style.geo.height * style.otf) \div 1000)

\* C23 witness: a styled cue of a CJK line and a line of the other class,
\* the two profiles having different factors
C23_Witness ==
    /\ style.phase = "styled"
    /\ style.zhf # style.otf
    /\ Len(SplitLines(style.out)) = 2
    /\ IsCn(SplitLines(style.out)[1])
    /\ ~IsCn(SplitLines(style.out)[2])
    /\ Len(Undirected(SplitLines(style.out)[2])) >= 1

\* C31: styling a cue is idempotent: process_bilingual_event applied to an
\* already styled cue, with the same height, factors and colours, yields
\* exactly the text it yielded the first time, for every cue text, texts
\* with unmatched "{" or "}" included.
C31_StylingIdempotent ==
    style.phase = "restyled" => style.again = style.out

\* ------------------------------------------------- claims on the editor
\* the lines of a cue's content, newlines at its two ends left aside
ContentLines(content) == SplitNl(RStripNl(LStripNl(content)))

\* how often the line l occurs among ls
LineCount(l, ls) == Cardinality({i \in DOMAIN ls : ls[i] = l})

\* C32: swap_chinese_english is idempotent for a fixed target order and
\* loses nothing: swap(swap(s, up), up) equals swap(s, up), and the result
\* has as many cues as the input, the same start and end per cue and, per
\* cue, the same multiset of lines.
C32_SwapIdempotentLossless ==
    swap.phase = "twice" =>
        /\ swap.twice = swap.once
        /\ Len(swap.once) = Len(swap.subs)
        /\ \A k \in DOMAIN swap.subs :
              /\ swap.once[k].start = swap.subs[k].start
              /\ swap.once[k].end = swap.subs[k].end
              /\ \A i \in DOMAIN ContentLines(swap.subs[k].content) :
                    LET l == ContentLines(swap.subs[k].content)[i]
                    IN  LineCount(l, ContentLines(swap.once[k].content))
                          = LineCount(l, ContentLines(swap.subs[k].content))

\* ------------------------------------- claims on the translation task
\* the outcomes of a task named by the claim
TaskOutcomes == {"extract_error", "start_failed", "upload_http_error",
                 "upload_no_id", "upload_network_error", "poll_error",
                 "done", "error"}

\* C33: every translation task that sets the busy flag eventually clears
\* it, on every outcome: extraction error or a process that fails to start,
\* upload HTTP error, upload reply without a job id or with a network error,
\* polling error, status Done, status Error.
C33_BusyEventuallyCleared ==
    \A o \in TaskOutcomes : [](mw.outcome = o => <>(~mw.busy))

\* C34: for each job id _download_results is started at most once, however
\* many get_job replies with status Done arrive for it.
C34_DownloadAtMostOnce ==
    \A jid \in JobIds : mw.downloads[jid] <= 1

\* a second Done reply for a job was handled while another request was
\* still in flight
C34_Witness ==
    \E jid \in JobIds :
        /\ jid \in mw.redone
        /\ mw.downloads[jid] = 1
        /\ InFlightTotal(mw) > 0

\* C35: for every job up to NotFoundAllowance consecutive 404 replies are
\* tolerated and the job is failed only on the next one; the count starts
\* from zero for each new job.
C35_FailsOnlyPastAllowance ==
    mw.failedAt # 0 => mw.failedAt = NotFoundAllowance + 1

\* ------------------------------------------ claims on classification
\* C26: classify is total and deterministic: every non-empty string maps
\* to exactly one of CJK and OTHER, it is CJK exactly when it contains a
\* code point in U+4E00..U+9FFF, and classifying the same string again
\* gives the same class.
C26_ClassifyTotal ==
    (classify.phase = "done" /\ classify.text # << >>) =>
        /\ classify.re \in BOOLEAN
        /\ classify.re <=>
              \E i \in DOMAIN classify.text :
                  CodePoint(classify.text[i].ch) \in 19968..40959
        /\ classify.loop = classify.re
        /\ classify.again = classify.re

\* C26 witness: a string whose only character of the range is its last,
\* U+9FFF, was classified CJK
C26_Witness ==
    /\ classify.phase = "done"
    /\ Len(classify.text) >= 2
    /\ classify.text[Len(classify.text)] = Ch("U9FFF")
    /\ \A i \in 1..(Len(classify.text) - 1) :
          classify.text[i].ch \in {"a", "U4DFF", "UA000", "U3042", "UFF01"}
    /\ classify.re

\* --------------------------------------- claims on temporary track names
\* C27: the temporary track file name of an embed or preview operation
\* holds the identifier of the running process, so two operations started by
\* different processes on the same video (and the same cue file name) never
\* use the same temporary track path.
C27_TempNameHoldsPid ==
    (/\ temps.phase = "named"
     /\ temps.pid1 # temps.pid2
     /\ temps.video1 = temps.video2
     /\ temps.srt1.stem = temps.srt2.stem) =>
        /\ temps.path1 # temps.path2
        /\ \E i \in DOMAIN temps.path1.stem : temps.path1.stem[i] = temps.pid1

\* ------------------------------------------- claims on probe and track
\* C11: probe never raises: on any failure of the media-inspection tool it
\* returns 1920x1080, and the track-building step that called it goes on to
\* serialize a styled track (styled against height 1080).
C11_ProbeFailureFallsBack ==
    (track.phase = "done" /\ track.probe # "ok") =>
        /\ track.res.probed = [width |-> 1920, height |-> 1080]
        /\ track.load = "ok" => track.res.saved
        /\ (track.load = "ok" /\ track.save = "ok") =>
              /\ ~track.res.raised
              /\ track.res.out.style.fontsize = 43
              /\ Len(track.res.out.events) = Len(track.cues)
              /\ \A k \in DOMAIN track.res.out.events :
                    /\ track.res.out.events[k].text[1] = Ch("{")
                    /\ track.res.out.events[k].text[2].fs \in {43, 48}

\* C11 witness: the tool printed malformed output for a portrait video and
\* a track with events was written
C11_Witness ==
    /\ track.phase = "done"
    /\ track.probe = "bad_json"
    /\ track.geo.height = 1920
    /\ ~track.res.raised
    /\ track.res.saved
    /\ Len(track.res.out.events) = 2

\* a track was written by convert_srt_to_ass
TrackWritten ==
    track.phase = "done" /\ track.load = "ok" /\ track.save = "ok"

\* C24: building a track keeps the cues one-to-one: as many events as
\* cues, in the same order, each event with its cue's start and end (styling
\* changes only the text).
C24_TrackKeepsCues ==
    TrackWritten =>
        /\ ~track.res.raised
        /\ Len(track.res.out.events) = Len(track.cues)
        /\ \A k \in DOMAIN track.cues :
              /\ track.res.out.events[k].start = track.cues[k].start
              /\ track.res.out.events[k].end = track.cues[k].end
              /\ Undirected(SplitLines(track.res.out.events[k].text)[1])
                    = RawLines(track.cues[k].text)[1]

\* C24 witness: a track was written from two cues that differ in timing and
\* in text
C24_Witness ==
    /\ TrackWritten
    /\ Len(track.cues) = 2
    /\ track.cues[1].start > track.cues[2].start
    /\ RawLines(track.cues[1].text)[1] # RawLines(track.cues[2].text)[1]
    /\ Len(track.res.out.events) = 2

\* C25: in every track emitted, every event has start >= 0 and
\* end >= start.
C25_EventTimesOrdered ==
    TrackWritten =>
        \A k \in DOMAIN track.res.out.events :
            /\ track.res.out.events[k].start >= 0
            /\ track.res.out.events[k].end >= track.res.out.events[k].start

\* ------------------------------------------------- claims on preview
PvDone == preview.phase = "done"

\* the steps of the call that failed, each counted only if it was reached
PvInputFailed == preview.pre # "ok" \/ preview.cues = << >>

PvReachedBuild == preview.pre = "ok" /\ preview.cues # << >>

PvProbeFailed == PvReachedBuild /\ preview.probe # "ok"

PvBuildFailed == PvReachedBuild /\ preview.save # "ok"

PvProcessFailed ==
    PvReachedBuild /\ preview.save = "ok" /\ preview.run # "exit_0"

\* C12: preview never raises to its caller: for every probe,
\* track-build, process or I/O failure at any step it returns false.
C12_FalseOnEveryFailure ==
    PvDone =>
        /\ preview.res.ret \in {"true", "false"}
        /\ (PvInputFailed \/ PvProbeFailed \/ PvBuildFailed \/ PvProcessFailed)
              => preview.res.ret = "false"

\* C13: whenever preview has created its temporary track file, the file no
\* longer exists when preview returns, whatever the outcome.
C13_PreviewTempRemoved ==
    (PvDone /\ preview.res.temp_created) => ~preview.res.temp_exists

\* C14: preview returns true only if the process finished with exit code 0
\* before the timeout fired.
C14_TrueOnlyOnExitZero ==
    (PvDone /\ preview.res.ret = "true") => preview.run = "exit_0"

\* C15: whenever preview returns false, no file exists at the output image
\* path afterwards.
C15_NoImageAfterFalse ==
    (PvDone /\ preview.res.ret = "false") => preview.res.image = "absent"

\* C16: the preview track holds exactly one event, a clone of the selected
\* cue with start 0 and end 5000 ms whatever the cue's timing; the cue in
\* the loaded cue list keeps its start and end.
C16_SingleRetimedClone ==
    (PvDone /\ PvReachedBuild) =>
        /\ preview.res.selected \in DOMAIN preview.cues
        /\ preview.res.cues = preview.cues
        /\ preview.save = "ok" =>
              /\ Len(preview.res.events) = 1
              /\ preview.res.events[1].start = 0
              /\ preview.res.events[1].end = 5000
              /\ SplitLines(StripTags(preview.res.events[1].text))
                    = <<preview.cues[preview.res.selected].text>>

\* C16 witness: a track was written for a cue that starts at 12000 ms
C16_Witness ==
    /\ PvDone
    /\ PvReachedBuild
    /\ preview.save = "ok"
    /\ preview.cues[preview.res.selected].start = 12000

C18_SelectedHasMaxWeight ==
    (PvDone /\ PvReachedBuild) =>
        \A k \in DOMAIN preview.cues :
            Weight(preview.cues[k].text)
                <= Weight(preview.cues[preview.res.selected].text)

\* C18 (amended): for every non-empty cue list, the cue preview renders is
\* the first cue of the list, whatever its visual weight.
C18_SelectedIsFirst ==
    (PvDone /\ PvReachedBuild) =>
        /\ preview.res.selected = 1
        /\ preview.save = "ok" =>
              SplitLines(StripTags(preview.res.events[1].text))
                  = <<preview.cues[1].text>>

\* C18 witness: a track was written from a list whose second cue weighs
\* more than its first
C18_Witness ==
    /\ PvDone
    /\ PvReachedBuild
    /\ preview.save = "ok"
    /\ Len(preview.cues) >= 2
    /\ Weight(preview.cues[2].text) > Weight(preview.cues[1].text)

====
